---- MODULE Spec2Model ----
(***************************************************************************)
(* Model of the GameOfLife view of vizias-game-of-life (src/src/lib.rs):   *)
(* the board, the run flag, the step algorithm with its toroidal           *)
(* neighbour lookup, the cell edits and the event handler.                 *)
(*                                                                         *)
(* The board is the Vec<usize> `board`, modelled as a function on          *)
(* 0 .. len-1 so that indices are the code's indices.  An out-of-range     *)
(* Vec index is a panic; a panic unwinds the calling thread, so no further *)
(* operation runs on the engine after it.                                  *)
(*                                                                         *)
(* The `as i32` / `as usize` casts of get_neighbors preserve the value for *)
(* every board this model builds (all sizes are far below 2^31), so they   *)
(* are not written out.                                                    *)
(***************************************************************************)
EXTENDS Integers, Sequences, FiniteSets, TLC

\* Largest board_x and board_y, and largest number of cells (board_x * board_y),
\* of a board the model builds.
MaxSide == 3

MaxCells == 9

\* Largest board_x and board_y of the boards on which patterns are laid out.
MaxPatternSide == 5

VARIABLES
    running,        \* GameOfLife.running
    board,          \* GameOfLife.board, a function on 0 .. len-1
    board_x,        \* GameOfLife.board_x
    board_y,        \* GameOfLife.board_y
    last,           \* the last call: its name, arguments and outcome
    prev,           \* board as it was before the last call
    prev_running,   \* running as it was before the last call
    toggle_games    \* number of ToggleGame events handled so far, modulo 2

vars == <<running, board, board_x, board_y, last, prev, prev_running, toggle_games>>

\* Dimensions passed to GameOfLife::new: any usize pair, zero included.
Dims == {d \in (0..MaxSide) \X (0..MaxSide) : d[1] * d[2] <= MaxCells}

\* Dimensions of the boards on which patterns are laid out.
PatternDims == (1..MaxPatternSide) \X (1..MaxPatternSide)

\* Columns and rows in which the cells of a pattern are set before the game
\* is started: a 3x3 window one cell off the first row and column.
PatternWindow == 1..3

\* Length of a Vec modelled as a function on 0 .. len-1.
len(v) == Cardinality(DOMAIN v)

\* Variant of NewBoard: the Vec is filled with 1.
NewBoardOnes(bx, by) == [i \in 0..(bx * by - 1) |-> 1]

\* vec![0; board_x * board_y]
NewBoard(bx, by) == [i \in 0..(bx * by - 1) |-> 0]

\* The outcome of a call: the fields of self it leaves, and what it returns
\* ("unit", "true", "false") or "panic".
Outcome(b, r, res) == [board |-> b, running |-> r, result |-> res]

Call(op, x, y, value, res) ==
    [op |-> op, x |-> x, y |-> y, value |-> value, result |-> res]

----------------------------------------------------------------------------
(* GameOfLife::start / GameOfLife::stop *)

\* Variant of start: flips the flag instead of setting it.
start_flips(self_board, self_running) == Outcome(self_board, ~self_running, "unit")

start(self_board, self_running) == Outcome(self_board, TRUE, "unit")

stop(self_board, self_running) == Outcome(self_board, FALSE, "unit")

\* Variant of toggle_game: the event always starts the game.
toggle_game_always_starts(self_board, self_running) == start(self_board, self_running)

\* The ToggleGame arm of View::event: stop() if running, start() otherwise.
toggle_game(self_board, self_running) ==
    IF self_running
    THEN stop(self_board, self_running)
    ELSE start(self_board, self_running)

----------------------------------------------------------------------------
(* GameOfLife::get_neighbors *)

\* Variant of DIRECTIONS: the last entry repeats (1, 0) instead of (1, 1).
DIRECTIONS_repeated ==
    << <<-1, -1>>, <<-1, 0>>, <<-1, 1>>, <<0, -1>>,
       <<0, 1>>, <<1, -1>>, <<1, 0>>, <<1, 0>> >>

\* const DIRECTIONS: [(i32, i32); 8]
DIRECTIONS ==
    << <<-1, -1>>, <<-1, 0>>, <<-1, 1>>, <<0, -1>>,
       <<0, 1>>, <<1, -1>>, <<1, 0>>, <<1, 1>> >>

\* Rust's `%` on i32: the remainder takes the sign of the dividend.
rem_truncating(a, b) == IF a >= 0 THEN a % b ELSE -((-a) % b)

\* i32::rem_euclid with a positive divisor: the non-negative remainder.
rem_euclid(a, b) == a % b

\* Variant of get_neighbors: a bounded board, the step off an edge stays
\* on the edge instead of wrapping.
get_neighbors_clamped(i, bx, by) ==
    LET x == i % bx
        y == i \div bx
        clamp(c, side) == IF c < 0 THEN 0 ELSE IF c >= side THEN side - 1 ELSE c
    IN  [k \in 1..8 |->
            LET nx == clamp(x + DIRECTIONS[k][1], bx)
                ny == clamp(y + DIRECTIONS[k][2], by)
            IN  ny * bx + nx]

\* Variant of get_neighbors: rows wrap by board_x as the columns do.
get_neighbors_one_modulus(i, bx, by) ==
    LET x == i % bx
        y == i \div bx
    IN  [k \in 1..8 |->
            LET nx == rem_euclid(x + DIRECTIONS[k][1], bx)
                ny == rem_euclid(y + DIRECTIONS[k][2], bx)
            IN  ny * bx + nx]

\* x and y of cell i, then each direction wrapped by board_x resp. board_y.
get_neighbors(i, bx, by) ==
    LET x == i % bx
        y == i \div bx
    IN  [k \in 1..8 |->
            LET nx == rem_euclid(x + DIRECTIONS[k][1], bx)
                ny == rem_euclid(y + DIRECTIONS[k][2], by)
            IN  ny * bx + nx]

----------------------------------------------------------------------------
(* GameOfLife::step *)

RECURSIVE SumSeq(_)
SumSeq(s) == IF s = << >> THEN 0 ELSE Head(s) + SumSeq(Tail(s))

\* neighbors.iter().map(|index| self.board[*index]).sum()
count_neighbors(self_board, neighbors) ==
    SumSeq([k \in 1..Len(neighbors) |-> self_board[neighbors[k]]])

\* Variant of next_value: a live cell survives on exactly 2 live neighbours.
next_value_survives_on_two(value, count) ==
    IF (value = 1 /\ count = 2) \/ (value = 0 /\ count = 3) THEN 1 ELSE 0

\* Variant of next_value: a live cell survives on 2 or more live neighbours.
next_value_never_crowded(value, count) ==
    IF (value = 1 /\ count >= 2) \/ (value = 0 /\ count = 3) THEN 1 ELSE 0

\* Variant of next_value: a dead cell is born on 2 live neighbours.
next_value_birth_on_two(value, count) ==
    IF (value = 1 /\ count \in 2..3) \/ (value = 0 /\ count = 2) THEN 1 ELSE 0

\* The if-expression assigned to new_board[i].
next_value(value, count) ==
    IF (value = 1 /\ count \in 2..3) \/ (value = 0 /\ count = 3) THEN 1 ELSE 0

\* Variant of step_loop: reads the cells it has already written.
RECURSIVE step_loop_in_place(_, _, _, _, _)
step_loop_in_place(self_board, new_board, i, bx, by) ==
    IF i >= len(self_board)
    THEN new_board
    ELSE step_loop_in_place(
            self_board,
            [new_board EXCEPT
                ![i] = next_value(new_board[i],
                                  count_neighbors(new_board, get_neighbors(i, bx, by)))],
            i + 1, bx, by)

\* The body of the for loop from index i on: reads self.board, writes new_board.
RECURSIVE step_loop(_, _, _, _, _)
step_loop(self_board, new_board, i, bx, by) ==
    IF i >= len(self_board)
    THEN new_board
    ELSE step_loop(
            self_board,
            [new_board EXCEPT
                ![i] = next_value(self_board[i],
                                  count_neighbors(self_board, get_neighbors(i, bx, by)))],
            i + 1, bx, by)

\* self.board[*index] panics when a neighbour index is outside the Vec.
step_panics(self_board, bx, by) ==
    \E i \in DOMAIN self_board :
        \E k \in 1..8 : get_neighbors(i, bx, by)[k] \notin DOMAIN self_board

\* Variant of step: the game stops itself after computing a generation.
step_halts(self_board, self_running, bx, by) ==
    IF self_running
    THEN IF step_panics(self_board, bx, by)
         THEN Outcome(self_board, self_running, "panic")
         ELSE Outcome(step_loop(self_board, self_board, 0, bx, by), FALSE, "unit")
    ELSE Outcome(self_board, self_running, "unit")

\* Variant of step: without the `if self.running`.
step_ignores_running(self_board, self_running, bx, by) ==
    IF step_panics(self_board, bx, by)
    THEN Outcome(self_board, self_running, "panic")
    ELSE Outcome(step_loop(self_board, self_board, 0, bx, by), self_running, "unit")

\* if self.running { new_board = clone; for ...; self.board = new_board }
step(self_board, self_running, bx, by) ==
    IF self_running
    THEN IF step_panics(self_board, bx, by)
         THEN Outcome(self_board, self_running, "panic")
         ELSE Outcome(step_loop(self_board, self_board, 0, bx, by), self_running, "unit")
    ELSE Outcome(self_board, self_running, "unit")

----------------------------------------------------------------------------
(* GameOfLife::toggle_cell / GameOfLife::set_cell *)

\* Variant of toggle_cell: without the `if self.running { return false }`.
toggle_cell_unguarded(self_board, self_running, bx, x, y) ==
    LET idx == y * bx + x
    IN  IF idx \notin DOMAIN self_board
        THEN Outcome(self_board, self_running, "panic")
        ELSE Outcome([self_board EXCEPT ![idx] = 1 - self_board[idx]],
                     self_running, "true")

\* Variant of toggle_cell: column-major index x * board_x + y.
toggle_cell_transposed(self_board, self_running, bx, x, y) ==
    IF self_running
    THEN Outcome(self_board, self_running, "false")
    ELSE LET idx == x * bx + y
         IN  IF idx \notin DOMAIN self_board
             THEN Outcome(self_board, self_running, "panic")
             ELSE Outcome([self_board EXCEPT ![idx] = 1 - self_board[idx]],
                          self_running, "true")

\* Variant of toggle_cell: writes 1 instead of 1 - cell.
toggle_cell_sets_alive(self_board, self_running, bx, x, y) ==
    IF self_running
    THEN Outcome(self_board, self_running, "false")
    ELSE LET idx == y * bx + x
         IN  IF idx \notin DOMAIN self_board
             THEN Outcome(self_board, self_running, "panic")
             ELSE Outcome([self_board EXCEPT ![idx] = 1], self_running, "true")

\* 1 - self.board[idx] is computed on usize; every cell is 0 or 1 (GridInvariant),
\* so the subtraction never underflows.
toggle_cell(self_board, self_running, bx, x, y) ==
    IF self_running
    THEN Outcome(self_board, self_running, "false")
    ELSE LET idx == y * bx + x
         IN  IF idx \notin DOMAIN self_board
             THEN Outcome(self_board, self_running, "panic")
             ELSE Outcome([self_board EXCEPT ![idx] = 1 - self_board[idx]],
                          self_running, "true")

\* `value as usize`
bool_as_usize(value) == IF value THEN 1 ELSE 0

\* Variant of set_cell: adds the value to the cell instead of storing it.
set_cell_adds(self_board, self_running, bx, x, y, value) ==
    IF self_running
    THEN Outcome(self_board, self_running, "false")
    ELSE LET idx == y * bx + x
         IN  IF idx \notin DOMAIN self_board
             THEN Outcome(self_board, self_running, "panic")
             ELSE Outcome([self_board EXCEPT ![idx] = self_board[idx] + bool_as_usize(value)],
                          self_running, "true")

\* self.board[y * self.board_x + x] = value as usize, unless running.
set_cell(self_board, self_running, bx, x, y, value) ==
    IF self_running
    THEN Outcome(self_board, self_running, "false")
    ELSE LET idx == y * bx + x
         IN  IF idx \notin DOMAIN self_board
             THEN Outcome(self_board, self_running, "panic")
             ELSE Outcome([self_board EXCEPT ![idx] = bool_as_usize(value)],
                          self_running, "true")

----------------------------------------------------------------------------
(* The state machine *)

\* GameOfLife::new(cx, board_x, board_y, delta_time): the struct literal.
New(d) ==
    /\ board_x = d[1]
    /\ board_y = d[2]
    /\ board = NewBoard(d[1], d[2])
    /\ running = FALSE
    /\ last = Call("new", d[1], d[2], FALSE, "unit")
    /\ prev = NewBoard(d[1], d[2])
    /\ prev_running = FALSE
    /\ toggle_games = 0

Init == \E d \in Dims : New(d)

InitPatterns == \E d \in PatternDims : New(d)

\* The thread that made a call that panicked has unwound.
Alive == last.result # "panic"

\* Coordinates a caller may pass: every cell, and one past each edge.
CoordsX == 0..board_x
CoordsY == 0..board_y

Apply(call, out) ==
    /\ last' = [call EXCEPT !.result = out.result]
    /\ prev' = board
    /\ prev_running' = running
    /\ board' = out.board
    /\ running' = out.running
    /\ toggle_games' = IF call.op = "event_toggle_game"
                       THEN (toggle_games + 1) % 2
                       ELSE toggle_games
    /\ UNCHANGED <<board_x, board_y>>

Start ==
    /\ Alive
    /\ Apply(Call("start", 0, 0, FALSE, "unit"), start(board, running))

Stop ==
    /\ Alive
    /\ Apply(Call("stop", 0, 0, FALSE, "unit"), stop(board, running))

Step ==
    /\ Alive
    /\ Apply(Call("step", 0, 0, FALSE, "unit"), step(board, running, board_x, board_y))

ToggleCell ==
    /\ Alive
    /\ \E x \in CoordsX, y \in CoordsY :
        Apply(Call("toggle_cell", x, y, FALSE, "unit"),
              toggle_cell(board, running, board_x, x, y))

SetCell ==
    /\ Alive
    /\ \E x \in CoordsX, y \in CoordsY, value \in BOOLEAN :
        Apply(Call("set_cell", x, y, value, "unit"),
              set_cell(board, running, board_x, x, y, value))

\* View::event, GameOfLifeEvent::ToggleGame.
EventToggleGame ==
    /\ Alive
    /\ Apply(Call("event_toggle_game", 0, 0, FALSE, "unit"),
             toggle_game(board, running))

\* View::event, GameOfLifeEvent::Step, emitted by the spawned timer thread.
EventStep ==
    /\ Alive
    /\ Apply(Call("event_step", 0, 0, FALSE, "unit"),
             step(board, running, board_x, board_y))

\* View::event, GameOfLifeEvent::ToggleCell(x, y): the labels that emit it
\* exist for x < board_x and y < board_y only; the bool toggle_cell returns
\* is dropped.
EventToggleCell ==
    /\ Alive
    /\ \E x \in 0..(board_x - 1), y \in 0..(board_y - 1) :
        LET out == toggle_cell(board, running, board_x, x, y)
        IN  Apply(Call("event_toggle_cell", x, y, FALSE, "unit"),
                  [out EXCEPT !.result = IF @ = "panic" THEN "panic" ELSE "unit"])

\* The public methods, called directly.
Next ==
    \/ Start
    \/ Stop
    \/ Step
    \/ ToggleCell
    \/ SetCell

Spec == Init /\ [][Next]_vars

\* The view as the application runs it: every change comes through View::event.
NextEvents ==
    \/ EventStep
    \/ EventToggleGame
    \/ EventToggleCell

SpecEvents == Init /\ [][NextEvents]_vars

\* set_cell(x, y, true) on a cell of the pattern window, while the game has
\* not been started yet: the clicks that lay out a pattern.
PatternSetCell ==
    /\ Alive
    /\ last.op \in {"new", "set_cell"}
    /\ \E x \in PatternWindow \cap (0..(board_x - 1)),
          y \in PatternWindow \cap (0..(board_y - 1)) :
        Apply(Call("set_cell", x, y, TRUE, "unit"),
              set_cell(board, running, board_x, x, y, TRUE))

\* A pattern is laid out on a fresh board, the game is started and left to run.
NextPatterns ==
    \/ PatternSetCell
    \/ Start
    \/ Step

SpecPatterns == InitPatterns /\ [][NextPatterns]_vars

----------------------------------------------------------------------------
(* Helpers of the properties *)

InBounds(x, y) == x < board_x /\ y < board_y

IsEdit == last.op \in {"toggle_cell", "set_cell"}

\* Row-major index of the cell at column x, row y.
IndexOf(x, y) == y * board_x + x

\* The column left of / right of column x and the row above / below row y on
\* the torus, written without a modulus.
WrapTo(c, side) == IF c < 0 THEN side - 1 ELSE IF c >= side THEN 0 ELSE c

\* Number of the 8 offsets around the cell of index c whose toroidal
\* neighbour is alive in the grid g.
LiveAround(g, c) ==
    LET x == c % board_x
        y == c \div board_x
        offsets == ((-1..1) \X (-1..1)) \ {<<0, 0>>}
    IN  Cardinality({o \in offsets :
            g[WrapTo(y + o[2], board_y) * board_x + WrapTo(x + o[1], board_x)] = 1})

SomeAlive(g) == \E i \in DOMAIN g : g[i] = 1

\* The grid of the current board size whose live cells are those at the
\* coordinates in cells.
GridOf(cells) ==
    [i \in 0..(board_x * board_y - 1) |->
        IF \E c \in cells : i = IndexOf(c[1], c[2]) THEN 1 ELSE 0]

\* Three cells in a row, resp. in a column, centred on (cx, cy).
HorizontalLine(cx, cy) == GridOf({<<cx - 1, cy>>, <<cx, cy>>, <<cx + 1, cy>>})

VerticalLine(cx, cy) == GridOf({<<cx, cy - 1>>, <<cx, cy>>, <<cx, cy + 1>>})

\* The 2x2 block whose first cell is (x, y), wrapping at the edges.
Block(x, y) ==
    GridOf({<<x, y>>, <<(x + 1) % board_x, y>>,
            <<x, (y + 1) % board_y>>, <<(x + 1) % board_x, (y + 1) % board_y>>})

\* The grid g with every cell (x, y) moved to ((x + a) mod W, (y + b) mod H).
Shift(g, a, b) ==
    [j \in DOMAIN g |->
        g[IndexOf(((j % board_x) - a) % board_x, ((j \div board_x) - b) % board_y)]]

----------------------------------------------------------------------------
(* Properties *)

\* C1 (edit guard): a toggle_cell or set_cell call made while the engine is
\* running is refused (returns false) and leaves the grid as it was; in the
\* state stop() leaves, and in every call made while stopped, toggle_cell
\* and set_cell with in-bounds coordinates return true and change the
\* addressed cell (flipped, resp. set to the value).
EditGuard ==
    /\ (IsEdit /\ prev_running) => (last.result = "false" /\ board = prev)
    /\ (IsEdit /\ ~prev_running /\ InBounds(last.x, last.y)) =>
          /\ last.result = "true"
          /\ board[IndexOf(last.x, last.y)] =
                IF last.op = "toggle_cell"
                THEN 1 - prev[IndexOf(last.x, last.y)]
                ELSE bool_as_usize(last.value)
    /\ (last.op = "stop") =>
          \A x \in 0..(board_x - 1), y \in 0..(board_y - 1) :
              /\ toggle_cell(board, running, board_x, x, y).result = "true"
              /\ toggle_cell(board, running, board_x, x, y).board[IndexOf(x, y)]
                    = 1 - board[IndexOf(x, y)]
              /\ \A v \in BOOLEAN :
                    /\ set_cell(board, running, board_x, x, y, v).result = "true"
                    /\ set_cell(board, running, board_x, x, y, v).board[IndexOf(x, y)]
                          = bool_as_usize(v)

\* An in-bounds edit was refused on a running engine whose grid has live cells.
EditGuardWitness ==
    /\ IsEdit
    /\ prev_running
    /\ InBounds(last.x, last.y)
    /\ last.result = "false"
    /\ SomeAlive(board)

\* C2 (step no-op while stopped): a step() call made while stopped leaves the
\* grid identical cell for cell and the engine stopped; as this holds after
\* every such call, it holds for any number of consecutive calls.
StepNoOpWhileStopped ==
    (last.op = "step" /\ ~prev_running) =>
        (board = prev /\ ~running /\ last.result = "unit")

\* step() was called while stopped on a grid that a running step would change.
StepNoOpWitness ==
    /\ last.op = "step"
    /\ ~prev_running
    /\ board_x > 0 /\ board_y > 0
    /\ step_loop(board, board, 0, board_x, board_y) # board

\* C3 (step rule from a snapshot): a step() call made while running on a
\* board with W,H > 0 leaves the grid in which each cell is alive iff it was
\* alive with 2 or 3 live neighbours or dead with exactly 3, the neighbours
\* being the 8 toroidal offsets counted in the grid before the step.
StepRule ==
    (last.op = "step" /\ prev_running /\ board_x > 0 /\ board_y > 0) =>
        /\ DOMAIN board = DOMAIN prev
        /\ \A c \in DOMAIN prev :
              LET n == LiveAround(prev, c)
              IN  (board[c] = 1) <=>
                      \/ (prev[c] = 1 /\ n \in {2, 3})
                      \/ (prev[c] = 0 /\ n = 3)
        /\ \A c \in DOMAIN board : board[c] \in {0, 1}

\* A running step in which one cell was born and another survived.
StepRuleWitness ==
    /\ last.op = "step"
    /\ prev_running
    /\ \E c \in DOMAIN prev : prev[c] = 0 /\ board[c] = 1
    /\ \E c \in DOMAIN prev : prev[c] = 1 /\ board[c] = 1

\* C4 (toroidal neighbours): on every board with W,H > 0, get_neighbors of the
\* cell at column x, row y returns 8 indices, the k-th being the row-major
\* index of the cell one step in the k-th direction with columns wrapping
\* by W and rows by H (column 0 next to column W-1, row 0 next to row H-1);
\* on 3x3 the neighbours of (0,0) include (2,2), (2,0) and (0,2).
ToroidalNeighbours ==
    (board_x > 0 /\ board_y > 0) =>
        /\ \A x \in 0..(board_x - 1), y \in 0..(board_y - 1) :
              LET ns == get_neighbors(IndexOf(x, y), board_x, board_y)
              IN  /\ DOMAIN ns = 1..8
                  /\ \A k \in 1..8 :
                        ns[k] = WrapTo(y + DIRECTIONS[k][2], board_y) * board_x
                                + WrapTo(x + DIRECTIONS[k][1], board_x)
        /\ {DIRECTIONS[k] : k \in 1..8} = ((-1..1) \X (-1..1)) \ {<<0, 0>>}
        /\ (board_x = 3 /\ board_y = 3) =>
              {IndexOf(2, 2), IndexOf(2, 0), IndexOf(0, 2)}
                  \subseteq {get_neighbors(IndexOf(0, 0), 3, 3)[k] : k \in 1..8}

\* A running step changed the grid of a non-square board with both sides > 1.
ToroidalNeighboursWitness ==
    /\ last.op = "step"
    /\ prev_running
    /\ board_x > 1 /\ board_y > 1 /\ board_x # board_y
    /\ board # prev

\* C5 (out-of-bounds edits never corrupt state): a toggle_cell or set_cell
\* call made while stopped with x >= W or y >= H does not report success
\* and leaves every cell of the grid unchanged.
OutOfBoundsEditsRefused ==
    (IsEdit /\ ~prev_running /\ ~InBounds(last.x, last.y)) =>
        (last.result # "true" /\ board = prev)

\* C6 (construction rejects zero dimensions): no engine whose width or height
\* is zero, hence whose grid is empty, is ever built.
NoDegenerateEngine ==
    board_x > 0 /\ board_y > 0 /\ len(board) > 0

\* C7 (grid invariant): in every reachable state the grid has exactly W*H
\* cells, indexed 0 .. W*H-1, and every cell is 0 or 1.
GridInvariant ==
    /\ len(board) = board_x * board_y
    /\ DOMAIN board = 0..(board_x * board_y - 1)
    /\ \A i \in DOMAIN board : board[i] \in {0, 1}

\* set_cell(x, y, true) succeeded on a cell that was already alive, on a grid
\* that also holds a dead cell.
GridInvariantWitness ==
    /\ last.op = "set_cell"
    /\ last.result = "true"
    /\ last.value
    /\ prev[IndexOf(last.x, last.y)] = 1
    /\ InBounds(last.x, last.y)
    /\ \E i \in DOMAIN board : board[i] = 0

\* C8 (step is total): on every board with W,H > 0 every neighbour index
\* step() reads lies in 0 .. W*H-1, and every step() call, running or
\* stopped, returns without a panic.
StepTotal ==
    /\ (board_x > 0 /\ board_y > 0) =>
          \A i \in DOMAIN board : \A k \in 1..8 :
              get_neighbors(i, board_x, board_y)[k] \in 0..(board_x * board_y - 1)
    /\ (last.op = "step") => last.result = "unit"

\* A running step completed on a board with a live cell in a corner, where
\* every direction wraps.
StepTotalWitness ==
    /\ last.op = "step"
    /\ prev_running
    /\ last.result = "unit"
    /\ board_x > 0 /\ board_y > 0
    /\ prev[0] = 1
    /\ prev[board_x * board_y - 1] = 1

\* C9 (initial state): right after construction every cell of the grid is
\* dead and the engine is stopped.
InitialState ==
    (last.op = "new") =>
        /\ ~running
        /\ len(board) = board_x * board_y
        /\ \A i \in DOMAIN board : board[i] = 0

\* A freshly built non-square board.
InitialStateWitness ==
    /\ last.op = "new"
    /\ board_x = 3
    /\ board_y = 2
    /\ len(board) = 6

\* C10 (toggle/set pairing): after a successful in-bounds toggle_cell(x,y)
\* made while stopped, a second toggle_cell(x,y) gives back the whole grid as
\* it was before the first; after a successful in-bounds set_cell(x,y,v), a
\* second set_cell(x,y,v) succeeds and leaves the grid as the first left it.
TogglePairing ==
    /\ (last.op = "toggle_cell" /\ last.result = "true" /\ InBounds(last.x, last.y)) =>
          LET again == toggle_cell(board, running, board_x, last.x, last.y)
          IN  again.result = "true" /\ again.board = prev
    /\ (last.op = "set_cell" /\ last.result = "true" /\ InBounds(last.x, last.y)) =>
          LET again == set_cell(board, running, board_x, last.x, last.y, last.value)
          IN  again.result = "true" /\ again.board = board

\* A successful in-bounds toggle of a live cell on a grid with other live cells.
TogglePairingWitness ==
    /\ last.op = "toggle_cell"
    /\ last.result = "true"
    /\ InBounds(last.x, last.y)
    /\ prev[IndexOf(last.x, last.y)] = 1
    /\ SomeAlive(board)

\* C11 (run-state toggling): start() leaves the engine running and stop()
\* leaves it stopped whatever the state before, neither changes a cell, a
\* second start() after start() and a second stop() after stop() change
\* nothing, and stop() after start() ends stopped with the grid as it was
\* before the start().
RunStateToggling ==
    /\ (last.op = "start") =>
          /\ running /\ board = prev /\ last.result = "unit"
          /\ start(board, running) = Outcome(board, running, "unit")
          /\ stop(board, running) = Outcome(prev, FALSE, "unit")
    /\ (last.op = "stop") =>
          /\ ~running /\ board = prev /\ last.result = "unit"
          /\ stop(board, running) = Outcome(board, running, "unit")

\* start() was called on an engine that was already running, with live cells.
RunStateTogglingWitness ==
    /\ last.op = "start"
    /\ prev_running
    /\ running
    /\ SomeAlive(board)

\* C15 (ToggleGame event): when every change comes through events, a
\* ToggleGame event flips the run flag and changes no cell, the engine is
\* running iff the number of ToggleGame events handled is odd, and a
\* ToggleCell event flips its cell iff that number is even when it is
\* handled (otherwise the grid stays as it was).
ToggleGameEvent ==
    /\ (last.op = "event_toggle_game") =>
          (running = ~prev_running /\ board = prev)
    /\ running <=> (toggle_games = 1)
    /\ (last.op = "event_toggle_cell") =>
          /\ (toggle_games = 0) =>
                board = [prev EXCEPT ![IndexOf(last.x, last.y)] = 1 - @]
          /\ (toggle_games = 1) => board = prev

\* A ToggleCell event was ignored after an odd number of ToggleGame events,
\* on a grid with live cells (so an even number came before them).
ToggleGameEventWitness ==
    /\ last.op = "event_toggle_cell"
    /\ toggle_games = 1
    /\ running
    /\ SomeAlive(board)

\* C16 (frame of the run state and the dimensions): step, toggle_cell and
\* set_cell, applied or refused, and the Step and ToggleCell events, leave
\* the run flag as it was; no call changes board_x or board_y.
RunStateFrame ==
    [][ /\ (last'.op \in {"step", "toggle_cell", "set_cell",
                          "event_step", "event_toggle_cell"})
              => running' = running
        /\ board_x' = board_x
        /\ board_y' = board_y ]_vars

\* A running step changed the grid of a 3x3 board and left the engine running.
RunStateFrameWitness ==
    /\ last.op = "step"
    /\ prev_running
    /\ running
    /\ board_x = 3 /\ board_y = 3
    /\ board # prev

\* C17 (edits touch exactly one cell): a toggle_cell or set_cell call made
\* while stopped with x < W and y < H changes the cell of index y*W + x
\* (flipped, resp. set to the value) and no other cell; toggling two
\* different in-bounds coordinates gives two different grids.
EditsTouchOneCell ==
    /\ (IsEdit /\ ~prev_running /\ InBounds(last.x, last.y)) =>
          board = [prev EXCEPT ![last.y * board_x + last.x] =
                      IF last.op = "toggle_cell"
                      THEN 1 - prev[last.y * board_x + last.x]
                      ELSE bool_as_usize(last.value)]
    /\ ~running =>
          \A x1 \in 0..(board_x - 1), y1 \in 0..(board_y - 1),
             x2 \in 0..(board_x - 1), y2 \in 0..(board_y - 1) :
              (<<x1, y1>> # <<x2, y2>>) =>
                  toggle_cell(board, running, board_x, x1, y1).board
                      # toggle_cell(board, running, board_x, x2, y2).board

\* A cell off the first row and column of a non-square board was toggled
\* while other cells were alive.
EditsTouchOneCellWitness ==
    /\ last.op = "toggle_cell"
    /\ last.result = "true"
    /\ InBounds(last.x, last.y)
    /\ last.x > 0 /\ last.y > 0
    /\ board_x # board_y
    /\ \E i \in DOMAIN prev : prev[i] = 1

\* C18 (consistent guard order): a toggle_cell or set_cell call with
\* x >= W or y >= H, in either run state, leaves the grid as it was, and the
\* other of the two operations ends the same way on the same arguments.
GuardOrderConsistent ==
    (IsEdit /\ ~InBounds(last.x, last.y)) =>
        /\ board = prev
        /\ \A v \in BOOLEAN :
              toggle_cell(prev, prev_running, board_x, last.x, last.y).result
                  = set_cell(prev, prev_running, board_x, last.x, last.y, v).result

\* C12 (blinker): on a 5x5 board with the game running, a step turns the
\* horizontal line of three live cells centred on an interior cell into the
\* vertical line through the same centre, and a step turns that vertical
\* line back into the horizontal one.
Blinker ==
    (board_x = 5 /\ board_y = 5 /\ last.op = "step" /\ prev_running) =>
        \A cx \in 1..3, cy \in 1..3 :
            /\ (prev = HorizontalLine(cx, cy)) =>
                  /\ board = VerticalLine(cx, cy)
                  /\ step(board, running, board_x, board_y).board
                        = HorizontalLine(cx, cy)
            /\ (prev = VerticalLine(cx, cy)) => board = HorizontalLine(cx, cy)

\* The second step of a blinker laid out on row 1: the vertical line through
\* rows 0..2, which only a step can produce, has turned horizontal again.
BlinkerWitness ==
    /\ board_x = 5 /\ board_y = 5
    /\ last.op = "step"
    /\ prev_running
    /\ prev = VerticalLine(2, 1)
    /\ board = HorizontalLine(2, 1)

\* C13 (block on a large board): on a board with W >= 4 and H >= 4 and the
\* game running, a step leaves a grid whose only live cells are a 2x2 block
\* as it is; as the grid is the same again, so does any number of steps.
BlockStillLife ==
    (board_x >= 4 /\ board_y >= 4 /\ last.op = "step" /\ prev_running) =>
        \A x \in 0..(board_x - 1), y \in 0..(board_y - 1) :
            (prev = Block(x, y)) => board = prev

\* A running step was taken on a 5x4 board holding only the block at (1,1).
BlockStillLifeWitness ==
    /\ board_x = 5 /\ board_y = 4
    /\ last.op = "step"
    /\ prev_running
    /\ prev = Block(1, 1)
    /\ board = Block(1, 1)

\* C14 as stated (block on the 2x2 board): on a 2x2 board whose four cells
\* are alive, a running step leaves all four alive.
FullBoardStillLife ==
    (board_x = 2 /\ board_y = 2 /\ last.op = "step" /\ prev_running
        /\ \A i \in DOMAIN prev : prev[i] = 1) =>
        \A i \in DOMAIN board : board[i] = 1

\* C14 as amended: on a 2x2 board whose four cells are alive, every cell
\* counts 8 live neighbours (each of the 8 offsets wraps onto a live cell),
\* so a running step leaves all four dead, and a running step on the
\* all-dead 2x2 board leaves it all dead.
FullBoardDies ==
    (board_x = 2 /\ board_y = 2 /\ last.op = "step" /\ prev_running) =>
        /\ (\A i \in DOMAIN prev : prev[i] = 1) =>
              /\ \A i \in DOMAIN prev :
                    count_neighbors(prev, get_neighbors(i, board_x, board_y)) = 8
              /\ \A i \in DOMAIN board : board[i] = 0
        /\ (\A i \in DOMAIN prev : prev[i] = 0) =>
              \A i \in DOMAIN board : board[i] = 0

\* A running step was taken on the 2x2 board with all four cells alive.
FullBoardDiesWitness ==
    /\ board_x = 2 /\ board_y = 2
    /\ last.op = "step"
    /\ prev_running
    /\ \A i \in DOMAIN prev : prev[i] = 1
    /\ last.result = "unit"

\* C19 (neighbour list shape): for every cell i of a board with W,H > 0,
\* get_neighbors(i) is a list of 8 indices in 0 .. W*H-1; when W >= 3 and
\* H >= 3 the 8 indices are pairwise different and none is i.
NeighbourListShape ==
    \A i \in DOMAIN board :
        LET ns == get_neighbors(i, board_x, board_y)
        IN  /\ DOMAIN ns = 1..8
            /\ \A k \in 1..8 : ns[k] \in 0..(board_x * board_y - 1)
            /\ (board_x >= 3 /\ board_y >= 3) =>
                  /\ \A k \in 1..8 : \A j \in 1..8 : (k # j) => ns[k] # ns[j]
                  /\ \A k \in 1..8 : ns[k] # i

\* A running step changed the grid of a 3x4 board.
NeighbourListShapeWitness ==
    /\ board_x = 3 /\ board_y = 4
    /\ last.op = "step"
    /\ prev_running
    /\ board # prev

\* C20 (edgeless universe): with the game running on a board with W,H > 0,
\* stepping the grid shifted by (a, b) on the torus gives the shift by (a, b)
\* of the stepped grid, for every shift; the all-dead grid steps to itself.
StepCommutesWithShift ==
    (last.op = "step" /\ prev_running /\ board_x > 0 /\ board_y > 0) =>
        /\ \A a \in 0..(board_x - 1), b \in 0..(board_y - 1) :
              step(Shift(prev, a, b), TRUE, board_x, board_y)
                  = Outcome(Shift(board, a, b), TRUE, "unit")
        /\ (~SomeAlive(prev)) => board = prev

\* A running step changed a grid of a 3x2 board that no shift along a row
\* maps to itself.
StepCommutesWithShiftWitness ==
    /\ board_x = 3 /\ board_y = 2
    /\ last.op = "step"
    /\ prev_running
    /\ board # prev
    /\ Shift(prev, 1, 0) # prev
    /\ Shift(prev, 2, 0) # prev

====
